---- MODULE Spec2Model ----
(***************************************************************************)
(* The file header (i-node) of the Nachos file system with a two-level     *)
(* index: src/filesys/filehdr.cc.  A header holds the file length, the     *)
(* sector count, the layout flag and NumFirst sector numbers, which are    *)
(* data sectors (direct layout) or index-node sectors (indexed layout).    *)
(* Every action is one call of a FileHeader method, run to its return.     *)
(* A last part models the loader of user programs, AddrSpace::AddrSpace    *)
(* of src/userprog/addrspace.cc, on a byte-addressed memory.               *)
(***************************************************************************)
EXTENDS Integers, Sequences, FiniteSets, TLC

\* Configuration.  The build fixes SectorSize, NumFirst, NumSecond and
\* NumSectors in disk.h and filehdr.h; the model runs a scaled-down disk
\* with NumFirst <= NumSecond, as the build has.
SectorSize == 2     \* bytes in a sector
NumFirst == 2       \* sector numbers in a file header
NumSecond == 3      \* sector numbers in an index node
NumSectors == 12    \* sectors on the disk
MaxAdd == 6        \* largest addBytes handed to addLength
\* The loader of user programs (src/userprog/addrspace.cc): the build fixes
\* PageSize and NumPhysPages in machine.h, UserStackSize in addrspace.h and
\* the size of the NOFF header in noff.h; the model runs a scaled-down
\* machine.
PageSize == 2       \* bytes in a page and in a physical frame
NumPhysPages == 5   \* physical frames of the machine
UserStackSize == 2  \* bytes of stack of a user program
NoffBytes == 1      \* sizeof(NoffHeader): where the segments start in a file
MaxSegment == 3     \* largest code or initData segment of an executable
NumSpaces == 2      \* address spaces alive at a time

\* BitMap::Find's answer when no bit is clear.
NoSector == -1
\* Content of memory the code never initialised (new SecondNode, a fresh
\* FileHeader): no sector of the disk, and never marked in a bitmap.
Junk == -2

Headers == {1, 2}
Sectors == 0 .. (NumSectors - 1)
\* The sector holding header h on disk (headSector of addLength).
HeadSector(h) == h - 1
\* The largest file size the second-level index can address.
MaxFileSize == NumFirst * NumSecond * SectorSize
\* Header 1 is the file under study: Allocate gets every size up to one byte
\* beyond MaxFileSize, addLength every addBytes up to MaxAdd.  Header 2 is
\* another file on the same disk, created empty, with one sector or with
\* MaxFileSize bytes, and grown by MaxAdd bytes at a time.
FileSizes(h) ==
    IF h = 1 THEN 0 .. (MaxFileSize + 1) ELSE {0, SectorSize, MaxFileSize}
AddSizes(h) ==
    IF h = 1 THEN 0 .. MaxAdd ELSE {MaxAdd}

VARIABLES
    hdr,          \* hdr[h]: the in-memory FileHeader object h
    life,         \* life[h]: "new" before a successful Allocate, "open" after it,
                  \* "gone" once Deallocate was called on h, "again" once it
                  \* was called a second time
    freeMap,      \* the in-memory BitMap: the set of marked sectors
    freeMapFile,  \* the bitmap as stored in its backing file
    disk,         \* synchDisk: content of every sector
    memFault,     \* a store went beyond dataSectors[NumFirst-1]
    last,         \* the call that produced this state, with the state before it
    thr,          \* thr[h]: the thread running addLength on header h, by disk
                  \* operation: where it is, its BitMap object, its locals
    serial,       \* the callers hold a lock around every addLength call
    mainMemory,   \* machine->mainMemory: the byte at every physical address
    freeFrame,    \* machine->freeFrame: the set of marked frames
    threadMap,    \* machine->threadMap: the set of marked pids
    space,        \* space[a]: the AddrSpace object a
    load          \* the AddrSpace call that produced this state

\* The state of the file system and the state of the user-program loader.
fsVars == <<hdr, life, freeMap, freeMapFile, disk, memFault, last, thr, serial>>
userVars == <<mainMemory, freeFrame, threadMap, space, load>>
vars == <<hdr, life, freeMap, freeMapFile, disk, memFault, last, thr, serial,
          mainMemory, freeFrame, threadMap, space, load>>

----------------------------------------------------------------------------
\* utility: divRoundUp(n, s)
divRoundUp(n, s) == (n \div s) + (IF n % s > 0 THEN 1 ELSE 0)

Min(S) == CHOOSE x \in S : \A y \in S : x <= y

\* An index node nobody has written to (new SecondNode).
JunkNode == [j \in 0 .. (NumSecond - 1) |-> Junk]
\* A FileHeader object before Allocate or FetchFrom.
FreshHeader ==
    [numBytes |-> 0, numSectors |-> 0, useIndex |-> FALSE,
     dataSectors |-> [i \in 0 .. (NumFirst - 1) |-> Junk]]

\* A sector's content: nothing written yet, an index node (its NumSecond
\* entries), or a file header (numBytes, numSectors, useIndex, dataSectors).
RawSector == [kind |-> "raw", w |-> <<>>]
NodeSector(n) == [kind |-> "node", w |-> [j \in 1 .. NumSecond |-> n[j - 1]]]
HdrSector(x) ==
    [kind |-> "hdr",
     w |-> <<x.numBytes, x.numSectors, IF x.useIndex THEN 1 ELSE 0>>
           \o [i \in 1 .. NumFirst |-> x.dataSectors[i - 1]]]

\* BitMap::NumClear
NumClear(fm) == NumSectors - Cardinality(fm)
\* BitMap::Test
Test(fm, s) == s \in fm
\* BitMap::Clear
Clear(fm, s) == fm \ {s}
\* BitMap::Find: the first clear bit, which it marks; NoSector when none.
FindBit(fm) == IF Sectors \ fm = {} THEN NoSector ELSE Min(Sectors \ fm)
FindMark(fm) == IF Sectors \ fm = {} THEN fm ELSE fm \cup {FindBit(fm)}

----------------------------------------------------------------------------
\* The machine state a call works on: the header object, the bitmap object,
\* the disk, whether the machine halted (a failed ASSERT) and whether a
\* store left the dataSectors array.
Machine(h0, fm, dk) ==
    [h |-> h0, map |-> fm, disk |-> dk, halt |-> FALSE, fault |-> FALSE]

\* dataSectors[i] = s.  The array has NumFirst elements; a store at
\* i >= NumFirst lands outside the header object.
SetSlot(m, i, s) ==
    IF i \in 0 .. (NumFirst - 1)
    THEN [m EXCEPT !.h.dataSectors[i] = s]
    ELSE [m EXCEPT !.fault = TRUE]

\* dataSectors[i] as a read.
Slot(h0, i) == IF i \in 0 .. (NumFirst - 1) THEN h0.dataSectors[i] ELSE Junk

\* synchDisk->WriteSector(s, node).  The disk has sectors 0..NumSectors-1;
\* a request for any other number stops the machine.
WriteNode(m, s, n) ==
    IF m.halt THEN m
    ELSE IF s \in Sectors THEN [m EXCEPT !.disk[s] = NodeSector(n)]
    ELSE [m EXCEPT !.halt = TRUE]

\* synchDisk->ReadSector(s, node): the sector's bytes read as an index node.
ReadNode(dk, s) ==
    IF s \in Sectors /\ dk[s].kind = "node"
    THEN [j \in 0 .. (NumSecond - 1) |-> dk[s].w[j + 1]]
    ELSE JunkNode

\* for (j = lo; j < hi; j++) node->dataSectors[j] = freeMap->Find();
\* answers <<node, bitmap>>.
RECURSIVE DrawEntries(_, _, _, _)
DrawEntries(n, fm, lo, hi) ==
    IF lo >= hi THEN <<n, fm>>
    ELSE DrawEntries([n EXCEPT ![lo] = FindBit(fm)], FindMark(fm), lo + 1, hi)

\* for (i = lo; i < hi; i++) dataSectors[i] = freeMap->Find();
RECURSIVE DrawSlots(_, _, _)
DrawSlots(m, lo, hi) ==
    IF lo >= hi THEN m
    ELSE DrawSlots([SetSlot(m, lo, FindBit(m.map)) EXCEPT !.map = FindMark(m.map)],
                   lo + 1, hi)

\* The variant of NewNode that sizes the last node by numSectors % NumSecond.
NewNodeModTail(m, i, numNode, numSectors) ==
    LET sector == FindBit(m.map)
        m1 == [SetSlot(m, i, sector) EXCEPT !.map = FindMark(m.map)]
        cnt == IF i < numNode - 1 THEN NumSecond ELSE numSectors % NumSecond
        filled == DrawEntries(JunkNode, m1.map, 0, cnt)
    IN  WriteNode([m1 EXCEPT !.map = filled[2]], sector, filled[1])

\* The variant of NewNode that does not write the node to its sector.
NewNodeUnwritten(m, i, numNode, numSectors) ==
    LET sector == FindBit(m.map)
        m1 == [SetSlot(m, i, sector) EXCEPT !.map = FindMark(m.map)]
        cnt == IF i < numNode - 1 THEN NumSecond
               ELSE numSectors - NumSecond * (numNode - 1)
        filled == DrawEntries(JunkNode, m1.map, 0, cnt)
    IN  [m1 EXCEPT !.map = filled[2]]

\* The body of the loop that builds index node i of numNode: one sector for
\* the node, its entries (all NumSecond, or the tail in the last node), and
\* the node written to its sector.
NewNode(m, i, numNode, numSectors) ==
    LET sector == FindBit(m.map)
        m1 == [SetSlot(m, i, sector) EXCEPT !.map = FindMark(m.map)]
        cnt == IF i < numNode - 1 THEN NumSecond
               ELSE numSectors - NumSecond * (numNode - 1)
        filled == DrawEntries(JunkNode, m1.map, 0, cnt)
    IN  WriteNode([m1 EXCEPT !.map = filled[2]], sector, filled[1])

\* for (i = lo; i < numNode; i++) { ... }; a halted machine runs no further.
RECURSIVE NodeLoop(_, _, _, _)
NodeLoop(m, i, numNode, numSectors) ==
    IF i >= numNode \/ m.halt THEN m
    ELSE NodeLoop(NewNode(m, i, numNode, numSectors), i + 1, numNode, numSectors)

\* if (freeMap->NumClear() < numSectors + numNode) return FALSE;
\* The variant forgets the sectors of the index nodes.
NoSpaceDataOnly(fm, numSectors, numNode) == NumClear(fm) < numSectors
NoSpaceWithIndex(fm, numSectors, numNode) == NumClear(fm) < numSectors + numNode

\* The variant of AllocateWithIndex that leaves useIndex as it was.
AllocateWithIndexNoFlag(m, fileSize) ==
    LET numSectors == divRoundUp(fileSize, SectorSize)
        numNode == divRoundUp(numSectors, NumSecond)
        m1 == [m EXCEPT !.h.numBytes = fileSize, !.h.numSectors = numSectors]
    IN  IF NoSpaceWithIndex(m.map, numSectors, numNode)
        THEN [m |-> m1, ret |-> FALSE]
        ELSE [m |-> NodeLoop(m1, 0, numNode, numSectors), ret |-> TRUE]

\* FileHeader::AllocateWithIndex; answers the machine and the return value.
AllocateWithIndex(m, fileSize) ==
    LET numSectors == divRoundUp(fileSize, SectorSize)
        numNode == divRoundUp(numSectors, NumSecond)
        m1 == [m EXCEPT !.h.useIndex = TRUE, !.h.numBytes = fileSize,
                        !.h.numSectors = numSectors]
    IN  IF NoSpaceWithIndex(m.map, numSectors, numNode)
        THEN [m |-> m1, ret |-> FALSE]
        ELSE [m |-> NodeLoop(m1, 0, numNode, numSectors), ret |-> TRUE]

\* The variant of Allocate that takes the index from NumFirst sectors on.
AllocateIndexAtNumFirst(m, fileSize) ==
    LET numSectors == divRoundUp(fileSize, SectorSize)
        m1 == [m EXCEPT !.h.numBytes = fileSize, !.h.numSectors = numSectors]
        m2 == [m1 EXCEPT !.h.useIndex = FALSE]
    IN  IF numSectors >= NumFirst THEN AllocateWithIndex(m1, fileSize)
        ELSE IF NumClear(m.map) < numSectors THEN [m |-> m2, ret |-> FALSE]
        ELSE [m |-> DrawSlots(m2, 0, numSectors), ret |-> TRUE]

\* FileHeader::Allocate
Allocate(m, fileSize) ==
    LET numSectors == divRoundUp(fileSize, SectorSize)
        m1 == [m EXCEPT !.h.numBytes = fileSize, !.h.numSectors = numSectors]
        m2 == [m1 EXCEPT !.h.useIndex = FALSE]
    IN  IF numSectors > NumFirst THEN AllocateWithIndex(m1, fileSize)
        ELSE IF NumClear(m.map) < numSectors THEN [m |-> m2, ret |-> FALSE]
        ELSE [m |-> DrawSlots(m2, 0, numSectors), ret |-> TRUE]

\* The variant of ClearAll without the ASSERT: every bit is cleared, set or not.
RECURSIVE ClearAllUnchecked(_, _)
ClearAllUnchecked(m, ss) ==
    IF ss = <<>> \/ m.halt THEN m
    ELSE ClearAllUnchecked([m EXCEPT !.map = Clear(m.map, Head(ss))], Tail(ss))

\* ASSERT(freeMap->Test(s)); freeMap->Clear(s); for every s of ss in turn.
\* A failed ASSERT stops the machine with the bits cleared so far.
RECURSIVE ClearAll(_, _)
ClearAll(m, ss) ==
    IF ss = <<>> \/ m.halt THEN m
    ELSE IF ~Test(m.map, Head(ss)) THEN [m EXCEPT !.halt = TRUE]
    ELSE ClearAll([m EXCEPT !.map = Clear(m.map, Head(ss))], Tail(ss))

\* The variant of FreeNode that leaves the node's own sector marked.
FreeNodeKeepNode(m, i, numNode) ==
    LET s == Slot(m.h, i)
        snode == ReadNode(m.disk, s)
        cnt == IF i < numNode - 1 THEN NumSecond
               ELSE m.h.numSectors - NumSecond * (numNode - 1)
    IN  IF s \notin Sectors THEN [m EXCEPT !.halt = TRUE]
        ELSE ClearAll(m, [j \in 1 .. cnt |-> snode[j - 1]])

\* The loop body of DeallocateWithIndex for node i: the node is read, its
\* entries are cleared (all, or the tail in the last node), then its sector.
FreeNode(m, i, numNode) ==
    LET s == Slot(m.h, i)
        snode == ReadNode(m.disk, s)
        cnt == IF i < numNode - 1 THEN NumSecond
               ELSE m.h.numSectors - NumSecond * (numNode - 1)
    IN  IF s \notin Sectors THEN [m EXCEPT !.halt = TRUE]
        ELSE ClearAll(m, [j \in 1 .. cnt |-> snode[j - 1]] \o <<s>>)

RECURSIVE FreeLoop(_, _, _)
FreeLoop(m, i, numNode) ==
    IF i >= numNode \/ m.halt THEN m
    ELSE FreeLoop(FreeNode(m, i, numNode), i + 1, numNode)

\* FileHeader::DeallocateWithIndex
DeallocateWithIndex(m) ==
    FreeLoop(m, 0, divRoundUp(m.h.numSectors, NumSecond))

\* The variant of Deallocate that stops one slot early in direct layout.
DeallocateSkipLast(m) ==
    IF m.h.useIndex THEN DeallocateWithIndex(m)
    ELSE ClearAll(m, [i \in 1 .. (m.h.numSectors - 1) |-> Slot(m.h, i - 1)])

\* FileHeader::Deallocate
Deallocate(m) ==
    IF m.h.useIndex THEN DeallocateWithIndex(m)
    ELSE ClearAll(m, [i \in 1 .. m.h.numSectors |-> Slot(m.h, i - 1)])

\* FileHeader::ByteToSectorWithIndex
ByteToSectorWithIndex(h0, dk, offset) ==
    LET whichSector == offset \div SectorSize
        whichNode == whichSector \div NumSecond
        node == ReadNode(dk, Slot(h0, whichNode))
    IN  node[whichSector - whichNode * NumSecond]

\* FileHeader::ByteToSector
ByteToSector(h0, dk, offset) ==
    IF h0.useIndex THEN ByteToSectorWithIndex(h0, dk, offset)
    ELSE Slot(h0, offset \div SectorSize)

\* The variant of WriteBack that writes nothing.
WriteBackNothing(m, sector) == m

\* FileHeader::WriteBack(sector)
WriteBack(m, sector) ==
    IF m.halt THEN m ELSE [m EXCEPT !.disk[sector] = HdrSector(m.h)]

\* The variant of Migrate that does not copy the old sectors into the node.
MigrateNoCopy(m, oldNumSectors) ==
    LET sec == FindBit(m.map)
        m1 == [m EXCEPT !.map = FindMark(m.map), !.h.dataSectors[0] = sec]
        m2 == WriteNode(m1, sec, JunkNode)
    IN  IF m2.halt THEN m2 ELSE [m2 EXCEPT !.h.useIndex = TRUE]

\* The variant of Migrate that leaves useIndex as it was.
MigrateNoFlag(m, oldNumSectors) ==
    LET sec == FindBit(m.map)
        snode == [j \in 0 .. (NumSecond - 1) |->
                    IF j < oldNumSectors THEN Slot(m.h, j) ELSE Junk]
        m1 == [m EXCEPT !.map = FindMark(m.map), !.h.dataSectors[0] = sec]
    IN  WriteNode(m1, sec, snode)

\* addLength, the branch that builds the second-level index of a header in
\* direct layout: the old data sectors move into a new node put in slot 0.
Migrate(m, oldNumSectors) ==
    LET sec == FindBit(m.map)
        snode == [j \in 0 .. (NumSecond - 1) |->
                    IF j < oldNumSectors THEN Slot(m.h, j) ELSE Junk]
        m1 == [m EXCEPT !.map = FindMark(m.map), !.h.dataSectors[0] = sec]
        m2 == WriteNode(m1, sec, snode)
    IN  IF m2.halt THEN m2 ELSE [m2 EXCEPT !.h.useIndex = TRUE]

\* addLength, filling the rest of the old last index node, after its read:
\* snode is what ReadSector has put in the buffer.
FillLastWrite(m, snode, oldNumSectors, oldNumNode) ==
    LET s == Slot(m.h, oldNumNode - 1)
        lo == oldNumSectors - (oldNumNode - 1) * NumSecond
        top == m.h.numSectors - (oldNumNode - 1) * NumSecond
        hi == IF top < NumSecond THEN top ELSE NumSecond
        filled == DrawEntries(snode, m.map, lo, hi)
    IN  IF m.halt THEN m
        ELSE WriteNode([m EXCEPT !.map = filled[2]], s, filled[1])

\* addLength, the branch that fills the rest of the old last index node.
FillLast(m, oldNumSectors, oldNumNode) ==
    LET s == Slot(m.h, oldNumNode - 1)
    IN  IF m.halt THEN m
        ELSE IF s \notin Sectors THEN [m EXCEPT !.halt = TRUE]
        ELSE FillLastWrite(m, ReadNode(m.disk, s), oldNumSectors, oldNumNode)

\* The variant counts the sectors of the added bytes on top of the old ones.
GrownSectorsByAdd(h0, addBytes) == h0.numSectors + divRoundUp(addBytes, SectorSize)
\* numBytes += addBytes; numSectors = divRoundUp(numBytes, SectorSize);
GrownSectors(h0, addBytes) == divRoundUp(h0.numBytes + addBytes, SectorSize)

\* The variant of addLength that returns without writing the header back
\* when the sector count stays.
addLengthSizeUnsaved(m, addBytes, headSector) ==
    LET oldNumSectors == m.h.numSectors
        numBytes == m.h.numBytes + addBytes
        numSectors == GrownSectors(m.h, addBytes)
        m1 == [m EXCEPT !.h.numBytes = numBytes, !.h.numSectors = numSectors]
        oldNumNode == divRoundUp(oldNumSectors, NumSecond)
        numNode == divRoundUp(numSectors, NumSecond)
        m2 == IF numSectors > NumFirst /\ ~m1.h.useIndex
              THEN Migrate(m1, oldNumSectors) ELSE m1
        m3 == IF oldNumSectors % NumSecond # 0
              THEN FillLast(m2, oldNumSectors, oldNumNode) ELSE m2
        m4 == NodeLoop(m3, oldNumNode, numNode, numSectors)
        m5 == WriteBack(m4, headSector)
    IN  IF numSectors - oldNumSectors = 0
        THEN [m |-> m1, mapFile |-> m.map]
        ELSE IF numSectors <= NumFirst
        THEN LET d == WriteBack(DrawSlots(m1, oldNumSectors, numSectors), headSector)
             IN  [m |-> d, mapFile |-> d.map]
        ELSE [m |-> m5, mapFile |-> IF m5.halt THEN m.map ELSE m5.map]

\* FileHeader::addLength.  m.map is the backing file's bitmap on entry (it
\* is fetched only when sectors are needed); mapFile is the backing file on
\* return.  The code has no return but "return true".
addLength(m, addBytes, headSector) ==
    LET oldNumSectors == m.h.numSectors
        numBytes == m.h.numBytes + addBytes
        numSectors == GrownSectors(m.h, addBytes)
        m1 == [m EXCEPT !.h.numBytes = numBytes, !.h.numSectors = numSectors]
        oldNumNode == divRoundUp(oldNumSectors, NumSecond)
        numNode == divRoundUp(numSectors, NumSecond)
        m2 == IF numSectors > NumFirst /\ ~m1.h.useIndex
              THEN Migrate(m1, oldNumSectors) ELSE m1
        m3 == IF oldNumSectors % NumSecond # 0
              THEN FillLast(m2, oldNumSectors, oldNumNode) ELSE m2
        m4 == NodeLoop(m3, oldNumNode, numNode, numSectors)
        m5 == WriteBack(m4, headSector)
    IN  IF numSectors - oldNumSectors = 0
        THEN [m |-> WriteBack(m1, headSector), mapFile |-> m.map]
        ELSE IF numSectors <= NumFirst
        THEN LET d == WriteBack(DrawSlots(m1, oldNumSectors, numSectors), headSector)
             IN  [m |-> d, mapFile |-> d.map]
        ELSE [m |-> m5, mapFile |-> IF m5.halt THEN m.map ELSE m5.map]

----------------------------------------------------------------------------
\* What a call leaves in `last`: the method, the header it was called on,
\* its argument and outcome, the header object as the call left it, and the
\* header's sector count and layout and the bitmap's clear bits at the call.
Call(op, h, arg, ret, obj) ==
    [op |-> op, h |-> h, arg |-> arg, ret |-> ret, obj |-> obj,
     oldNumSectors |-> hdr[h].numSectors, oldIndex |-> hdr[h].useIndex,
     oldClear |-> NumClear(freeMap)]

\* A thread that has not called addLength.
IdleThread ==
    [pc |-> "idle", op |-> "none", map |-> {}, oldNumSectors |-> 0, i |-> 0,
     snode |-> JunkNode]

\* The machine runs: no ASSERT has failed, no store has left a header.
Running == last.ret # "halt" /\ ~memFault
\* No change of the in-memory bitmap waits to be stored.
Stored == freeMap = freeMapFile

\* Physical frames, physical addresses, AddrSpace objects, pids.
Frames == 0 .. (NumPhysPages - 1)
Addrs == 0 .. (NumPhysPages * PageSize - 1)
Spaces == 1 .. NumSpaces
Pids == 0 .. (NumSpaces - 1)
\* A byte of memory: zero, or byte pos of the executable of space exe.
ZeroByte == [exe |-> 0, pos |-> 0]
FileByte(e, p) == [exe |-> e, pos |-> p]
\* A segment of a NOFF header, and the header of no executable.
Segment(v, f, n) == [virtualAddr |-> v, inFileAddr |-> f, size |-> n]
NoNoff ==
    [code |-> Segment(0, 0, 0), initData |-> Segment(0, 0, 0),
     uninitData |-> Segment(0, 0, 0)]
\* No AddrSpace object.
NoSpace ==
    [live |-> FALSE, numPages |-> 0, pageTable |-> <<>>, pid |-> NoSector,
     noffH |-> NoNoff]
\* The machine after Initialize: memory zeroed, no frame and no pid marked.
BootUser ==
    /\ mainMemory = [p \in Addrs |-> ZeroByte]
    /\ freeFrame = {}
    /\ threadMap = {}
    /\ space = [a \in Spaces |-> NoSpace]
    /\ load = [op |-> "boot", a |-> 1, wrote |-> {}, fault |-> FALSE]

\* A formatted disk: the header sectors are marked, nothing else is.
Init ==
    /\ hdr = [h \in Headers |-> FreshHeader]
    /\ life = [h \in Headers |-> "new"]
    /\ freeMap = {HeadSector(h) : h \in Headers}
    /\ freeMapFile = {HeadSector(h) : h \in Headers}
    /\ disk = [s \in Sectors |-> RawSector]
    /\ memFault = FALSE
    /\ last = [op |-> "init", h |-> 1, arg |-> 0, ret |-> "none",
               obj |-> FreshHeader, oldNumSectors |-> 0, oldIndex |-> FALSE,
               oldClear |-> NumSectors - Cardinality(Headers)]
    /\ thr = [h \in Headers |-> IdleThread]
    /\ serial = TRUE
    /\ BootUser

Outcome(m, ret) == IF m.halt THEN "halt" ELSE IF ret THEN "TRUE" ELSE "FALSE"

\* A file is created: Allocate on a new FileHeader object, with the bitmap
\* just fetched from its file.  When Allocate fails the caller drops the
\* object, which stays in last.obj as Allocate left it.
DoAllocate(h, fileSize) ==
    /\ Running /\ Stored /\ life[h] = "new"
    /\ LET r == Allocate(Machine(FreshHeader, freeMap, disk), fileSize)
       IN  /\ hdr' = [hdr EXCEPT ![h] = IF r.ret THEN r.m.h ELSE @]
           /\ life' = [life EXCEPT ![h] = IF r.ret THEN "open" ELSE "new"]
           /\ freeMap' = r.m.map
           /\ disk' = r.m.disk
           /\ memFault' = r.m.fault
           /\ last' = Call("Allocate", h, fileSize, Outcome(r.m, r.ret), r.m.h)
    /\ UNCHANGED <<freeMapFile, thr, serial, userVars>>

\* The caller stores what Allocate or Deallocate changed: the bitmap goes to
\* its file and the headers in use to their sectors.
DoStore ==
    /\ Running /\ ~Stored
    /\ freeMapFile' = freeMap
    /\ disk' = [s \in Sectors |->
                  IF \E h \in Headers : life[h] = "open" /\ HeadSector(h) = s
                  THEN HdrSector(hdr[s + 1]) ELSE disk[s]]
    /\ last' = Call("Store", last.h, 0, "none", hdr[last.h])
    /\ UNCHANGED <<hdr, life, freeMap, memFault, thr, serial, userVars>>

\* A file is removed: Deallocate on its header.
DoDeallocate(h) ==
    /\ Running /\ life[h] = "open"
    /\ LET m == Deallocate(Machine(hdr[h], freeMap, disk))
       IN  /\ freeMap' = m.map
           /\ last' = Call("Deallocate", h, 0,
                           IF m.halt THEN "halt" ELSE "none", m.h)
    /\ life' = [life EXCEPT ![h] = "gone"]
    /\ UNCHANGED <<hdr, freeMapFile, disk, memFault, thr, serial, userVars>>

\* Deallocate is called once more on a header it has already run on, with
\* no Allocate or addLength since (the calls since then, if any, stored the
\* bitmap).
DoDeallocateAgain(h) ==
    /\ Running /\ life[h] = "gone"
    /\ last.h = h /\ last.op \in {"Deallocate", "Store"}
    /\ LET m == Deallocate(Machine(hdr[h], freeMap, disk))
       IN  /\ freeMap' = m.map
           /\ last' = Call("Deallocate", h, 0,
                           IF m.halt THEN "halt" ELSE "none", m.h)
    /\ life' = [life EXCEPT ![h] = "again"]
    /\ UNCHANGED <<hdr, freeMapFile, disk, memFault, thr, serial, userVars>>

\* A file grows: addLength on its header; the bitmap comes from its file.
DoAddLength(h, addBytes) ==
    /\ Running /\ Stored /\ life[h] = "open"
    /\ LET r == addLength(Machine(hdr[h], freeMapFile, disk), addBytes, HeadSector(h))
       IN  /\ hdr' = [hdr EXCEPT ![h] = r.m.h]
           /\ freeMap' = r.mapFile
           /\ freeMapFile' = r.mapFile
           /\ disk' = r.m.disk
           /\ memFault' = r.m.fault
           /\ last' = Call("addLength", h, addBytes, Outcome(r.m, TRUE), r.m.h)
    /\ UNCHANGED <<life, thr, serial, userVars>>

Next ==
    \/ \E h \in Headers : \E fileSize \in FileSizes(h) : DoAllocate(h, fileSize)
    \/ \E h \in Headers : \E addBytes \in AddSizes(h) : DoAddLength(h, addBytes)
    \/ \E h \in Headers : DoDeallocate(h)
    \/ \E h \in Headers : DoDeallocateAgain(h)
    \/ DoStore

Spec == Init /\ [][Next]_vars

----------------------------------------------------------------------------
\* addLength by disk operation.  A thread is suspended at every ReadSector
\* and WriteSector (and at the read and the write of the bitmap's file) and
\* nowhere else, so each step below is one disk operation together with the
\* code that runs in memory before it.  Every thread calls addLength on a
\* header of its own; its BitMap object is local to the call.

\* The files the threads work on were created with these lengths.
StartSizes == {1, NumFirst * SectorSize, (NumFirst + 2) * SectorSize}
\* The addBytes the threads pass.
ThreadAdds == {1, SectorSize, MaxAdd}

\* The variant of AfterFill that goes round to the fill of the last node.
AfterFillAgain(h0, oldNumSectors) == "fillRead"

\* Where addLength goes once the old last node is filled: the loop over the
\* new nodes, or the write of the header when the loop has no round.
AfterFill(h0, oldNumSectors) ==
    IF divRoundUp(oldNumSectors, NumSecond) < divRoundUp(h0.numSectors, NumSecond)
    THEN "node" ELSE "hdr"
\* if (oldNumSectors % NumSecond != 0)
AfterMigrate(h0, oldNumSectors) ==
    IF oldNumSectors % NumSecond # 0 THEN "fillRead"
    ELSE AfterFill(h0, oldNumSectors)
\* The branches after the bitmap is fetched.
AfterFetch(h0, oldNumSectors) ==
    IF h0.numSectors <= NumFirst THEN "direct"
    ELSE IF ~h0.useIndex THEN "migrate"
    ELSE AfterMigrate(h0, oldNumSectors)

\* Thread h may run: the machine runs, and under the callers' lock no other
\* thread is inside a call or between a call and its caller's store (after
\* addLength the caller has nothing to store).
Turn(h) ==
    /\ ~memFault
    /\ \A g \in Headers : thr[g].pc # "halt"
    /\ serial => \A g \in Headers \ {h} :
                     \/ thr[g].pc = "idle"
                     \/ thr[g].pc = "done" /\ thr[g].op = "addLength"

\* What a step leaves: the header object, the disk, and the thread with its
\* BitMap object; a failed disk request stops the machine.
Leave(h, m, t) ==
    /\ hdr' = [hdr EXCEPT ![h] = m.h]
    /\ disk' = m.disk
    /\ memFault' = (memFault \/ m.fault)
    /\ thr' = [thr EXCEPT ![h] = [t EXCEPT !.map = m.map,
                                           !.pc = IF m.halt THEN "halt" ELSE @]]

\* The call up to its first disk operation: the header written back when
\* the sector count stays, the bitmap fetched from its file when it grows.
TCall(h, addBytes) ==
    /\ Turn(h) /\ thr[h].pc = "idle" /\ life[h] = "open"
    /\ hdr[h].numBytes + addBytes <= MaxFileSize
    /\ LET old == hdr[h].numSectors
           h1 == [hdr[h] EXCEPT !.numBytes = @ + addBytes,
                                !.numSectors = GrownSectors(hdr[h], addBytes)]
           m == Machine(h1, freeMapFile, disk)
       IN  IF h1.numSectors - old = 0
           THEN Leave(h, WriteBack(m, HeadSector(h)),
                      [IdleThread EXCEPT !.pc = "done", !.op = "addLength"])
           ELSE Leave(h, m, [IdleThread EXCEPT
                                !.pc = AfterFetch(h1, old),
                                !.op = "addLength",
                                !.oldNumSectors = old,
                                !.i = divRoundUp(old, NumSecond)])
    /\ UNCHANGED <<life, freeMap, freeMapFile, last, serial, userVars>>

\* Direct growth: the new slots are drawn and the bitmap is written back.
TDirect(h) ==
    /\ Turn(h) /\ thr[h].pc = "direct"
    /\ LET m == DrawSlots(Machine(hdr[h], thr[h].map, disk),
                          thr[h].oldNumSectors, hdr[h].numSectors)
       IN  /\ Leave(h, m, [thr[h] EXCEPT !.pc = "hdrDirect"])
           /\ freeMapFile' = m.map
    /\ UNCHANGED <<life, freeMap, last, serial, userVars>>

\* Direct growth: the header is written back and addLength returns true.
THdrDirect(h) ==
    /\ Turn(h) /\ thr[h].pc = "hdrDirect"
    /\ Leave(h, WriteBack(Machine(hdr[h], thr[h].map, disk), HeadSector(h)),
             [thr[h] EXCEPT !.pc = "done"])
    /\ UNCHANGED <<life, freeMap, freeMapFile, last, serial, userVars>>

\* The migration, up to the write of its node.
TMigrate(h) ==
    /\ Turn(h) /\ thr[h].pc = "migrate"
    /\ Leave(h, Migrate(Machine(hdr[h], thr[h].map, disk), thr[h].oldNumSectors),
             [thr[h] EXCEPT !.pc = AfterMigrate(hdr[h], thr[h].oldNumSectors)])
    /\ UNCHANGED <<life, freeMap, freeMapFile, last, serial, userVars>>

\* The old last node is read into the thread's buffer.
TFillRead(h) ==
    /\ Turn(h) /\ thr[h].pc = "fillRead"
    /\ LET s == Slot(hdr[h], thr[h].i - 1)
           m == Machine(hdr[h], thr[h].map, disk)
       IN  IF s \in Sectors
           THEN Leave(h, m, [thr[h] EXCEPT !.pc = "fillWrite",
                                           !.snode = ReadNode(disk, s)])
           ELSE Leave(h, [m EXCEPT !.halt = TRUE], thr[h])
    /\ UNCHANGED <<life, freeMap, freeMapFile, last, serial, userVars>>

\* The rest of the old last node is drawn and the node written.
TFillWrite(h) ==
    /\ Turn(h) /\ thr[h].pc = "fillWrite"
    /\ Leave(h, FillLastWrite(Machine(hdr[h], thr[h].map, disk), thr[h].snode,
                              thr[h].oldNumSectors,
                              divRoundUp(thr[h].oldNumSectors, NumSecond)),
             [thr[h] EXCEPT !.pc = AfterFill(hdr[h], thr[h].oldNumSectors),
                            !.snode = JunkNode])
    /\ UNCHANGED <<life, freeMap, freeMapFile, last, serial, userVars>>

\* One round of the loop over the new nodes, up to the write of the node.
TNode(h) ==
    /\ Turn(h) /\ thr[h].pc = "node"
    /\ LET numNode == divRoundUp(hdr[h].numSectors, NumSecond)
       IN  Leave(h, NewNode(Machine(hdr[h], thr[h].map, disk), thr[h].i,
                            numNode, hdr[h].numSectors),
                 [thr[h] EXCEPT !.i = @ + 1,
                                !.pc = IF thr[h].i + 1 < numNode
                                       THEN "node" ELSE "hdr"])
    /\ UNCHANGED <<life, freeMap, freeMapFile, last, serial, userVars>>

\* The header is written back.
THdr(h) ==
    /\ Turn(h) /\ thr[h].pc = "hdr"
    /\ Leave(h, WriteBack(Machine(hdr[h], thr[h].map, disk), HeadSector(h)),
             [thr[h] EXCEPT !.pc = "map"])
    /\ UNCHANGED <<life, freeMap, freeMapFile, last, serial, userVars>>

\* The variant of TMap that does not write the bitmap back.
TMapNoWriteBack(h) ==
    /\ Turn(h) /\ thr[h].pc = "map"
    /\ Leave(h, Machine(hdr[h], thr[h].map, disk), [thr[h] EXCEPT !.pc = "done"])
    /\ UNCHANGED <<life, freeMap, freeMapFile, last, serial, userVars>>

\* The bitmap is written back to its file and addLength returns true.
TMap(h) ==
    /\ Turn(h) /\ thr[h].pc = "map"
    /\ Leave(h, Machine(hdr[h], thr[h].map, disk), [thr[h] EXCEPT !.pc = "done"])
    /\ freeMapFile' = thr[h].map
    /\ UNCHANGED <<life, freeMap, last, serial, userVars>>

\* Two files created one after the other on a formatted disk, with their
\* headers and the bitmap stored; the callers serialize the calls or not.
InitThreads ==
    \E s1 \in StartSizes, s2 \in StartSizes :
        LET heads == {HeadSector(h) : h \in Headers}
            a1 == Allocate(Machine(FreshHeader, heads,
                                   [s \in Sectors |-> RawSector]), s1)
            a2 == Allocate(Machine(FreshHeader, a1.m.map, a1.m.disk), s2)
            hs == [h \in Headers |-> IF h = 1 THEN a1.m.h ELSE a2.m.h]
        IN  /\ a1.ret /\ a2.ret
            /\ hdr = hs
            /\ life = [h \in Headers |-> "open"]
            /\ freeMap = a2.m.map
            /\ freeMapFile = a2.m.map
            /\ disk = [s \in Sectors |->
                         IF s \in heads THEN HdrSector(hs[s + 1]) ELSE a2.m.disk[s]]
            /\ memFault = FALSE
            /\ last = [op |-> "Store", h |-> 2, arg |-> 0, ret |-> "none",
                       obj |-> hs[2], oldNumSectors |-> hs[2].numSectors,
                       oldIndex |-> hs[2].useIndex,
                       oldClear |-> NumClear(a2.m.map)]
            /\ thr = [h \in Headers |-> IdleThread]
            /\ serial \in BOOLEAN
            /\ BootUser

NextThreads ==
    \/ \E h \in Headers : \E addBytes \in ThreadAdds : TCall(h, addBytes)
    \/ \E h \in Headers : TDirect(h)
    \/ \E h \in Headers : THdrDirect(h)
    \/ \E h \in Headers : TMigrate(h)
    \/ \E h \in Headers : TFillRead(h)
    \/ \E h \in Headers : TFillWrite(h)
    \/ \E h \in Headers : TNode(h)
    \/ \E h \in Headers : THdr(h)
    \/ \E h \in Headers : TMap(h)

SpecThreads == InitThreads /\ [][NextThreads]_vars

----------------------------------------------------------------------------
\* The calls round by round.  One call runs at a time; Allocate and
\* Deallocate take one round of their outer loop in a step, addLength one
\* disk operation as above.  The caller fetches the bitmap before Allocate
\* and Deallocate, and stores the bitmap (and a new header) when they return.

\* The lengths the files are created with and the addBytes they grow by:
\* header 1 is the file under study, header 2 another file, with one sector
\* or with most of the disk.
CallSizes(h) == IF h = 1 THEN StartSizes \cup {0} ELSE {SectorSize, MaxFileSize}
CallAdds(h) == IF h = 1 THEN ThreadAdds ELSE {MaxAdd}

\* What a step of Allocate or Deallocate leaves: as Leave, with the bitmap
\* the caller passed in place of a BitMap object of the call.
LeaveShared(h, m, t) ==
    /\ hdr' = [hdr EXCEPT ![h] = m.h]
    /\ disk' = m.disk
    /\ memFault' = (memFault \/ m.fault)
    /\ freeMap' = m.map
    /\ thr' = [thr EXCEPT ![h] = [t EXCEPT !.pc = IF m.halt THEN "halt" ELSE @]]

\* Allocate up to its loop: the fields are set and the clear bits counted.
TAllocCall(h, fileSize) ==
    /\ Turn(h) /\ thr[h].pc = "idle" /\ life[h] = "new"
    /\ LET numSectors == divRoundUp(fileSize, SectorSize)
           numNode == divRoundUp(numSectors, NumSecond)
           m == Machine([FreshHeader EXCEPT !.numBytes = fileSize,
                                            !.numSectors = numSectors,
                                            !.useIndex = numSectors > NumFirst],
                        freeMapFile, disk)
           t == [IdleThread EXCEPT !.op = "Allocate"]
       IN  IF numSectors > NumFirst
           THEN LeaveShared(h, m, [t EXCEPT !.pc =
                    IF NoSpaceWithIndex(m.map, numSectors, numNode)
                    THEN "failed" ELSE "allocNode"])
           ELSE LeaveShared(h, m, [t EXCEPT !.pc =
                    IF NumClear(m.map) < numSectors THEN "failed"
                    ELSE IF numSectors = 0 THEN "done" ELSE "allocSlot"])
    /\ UNCHANGED <<life, freeMapFile, last, serial, userVars>>

\* One round of Allocate's loop over the slots.
TAllocSlot(h) ==
    /\ Turn(h) /\ thr[h].pc = "allocSlot"
    /\ LeaveShared(h, DrawSlots(Machine(hdr[h], freeMap, disk),
                                thr[h].i, thr[h].i + 1),
                   [thr[h] EXCEPT !.i = @ + 1,
                                  !.pc = IF thr[h].i + 1 < hdr[h].numSectors
                                         THEN "allocSlot" ELSE "done"])
    /\ UNCHANGED <<life, freeMapFile, last, serial, userVars>>

\* One round of AllocateWithIndex's loop over the nodes.
TAllocNode(h) ==
    /\ Turn(h) /\ thr[h].pc = "allocNode"
    /\ LET numNode == divRoundUp(hdr[h].numSectors, NumSecond)
       IN  LeaveShared(h, NewNode(Machine(hdr[h], freeMap, disk), thr[h].i,
                                  numNode, hdr[h].numSectors),
                       [thr[h] EXCEPT !.i = @ + 1,
                                      !.pc = IF thr[h].i + 1 < numNode
                                             THEN "allocNode" ELSE "done"])
    /\ UNCHANGED <<life, freeMapFile, last, serial, userVars>>

\* Deallocate up to its loop.
TFreeCall(h) ==
    /\ Turn(h) /\ thr[h].pc = "idle" /\ life[h] = "open"
    /\ LET bound == IF hdr[h].useIndex
                    THEN divRoundUp(hdr[h].numSectors, NumSecond)
                    ELSE hdr[h].numSectors
           t == [IdleThread EXCEPT !.op = "Deallocate"]
       IN  LeaveShared(h, Machine(hdr[h], freeMapFile, disk),
                       [t EXCEPT !.pc = IF bound <= 0 THEN "done"
                                        ELSE IF hdr[h].useIndex THEN "freeNode"
                                        ELSE "freeSlot"])
    /\ life' = [life EXCEPT ![h] = "gone"]
    /\ UNCHANGED <<freeMapFile, last, serial, userVars>>

\* One round of Deallocate's loop over the slots.
TFreeSlot(h) ==
    /\ Turn(h) /\ thr[h].pc = "freeSlot"
    /\ LeaveShared(h, ClearAll(Machine(hdr[h], freeMap, disk),
                               <<Slot(hdr[h], thr[h].i)>>),
                   [thr[h] EXCEPT !.i = @ + 1,
                                  !.pc = IF thr[h].i + 1 < hdr[h].numSectors
                                         THEN "freeSlot" ELSE "done"])
    /\ UNCHANGED <<life, freeMapFile, last, serial, userVars>>

\* One round of DeallocateWithIndex's loop over the nodes.
TFreeNode(h) ==
    /\ Turn(h) /\ thr[h].pc = "freeNode"
    /\ LET numNode == divRoundUp(hdr[h].numSectors, NumSecond)
       IN  LeaveShared(h, FreeNode(Machine(hdr[h], freeMap, disk), thr[h].i, numNode),
                       [thr[h] EXCEPT !.i = @ + 1,
                                      !.pc = IF thr[h].i + 1 < numNode
                                             THEN "freeNode" ELSE "done"])
    /\ UNCHANGED <<life, freeMapFile, last, serial, userVars>>

\* The call has returned to its caller.  After Allocate returned TRUE the
\* caller stores the header and the bitmap, after Deallocate the bitmap;
\* after Allocate returned FALSE it drops the header object.
TReturn(h) ==
    /\ Turn(h) /\ thr[h].pc \in {"done", "failed"}
    /\ thr' = [thr EXCEPT ![h] = IdleThread]
    /\ hdr' = [hdr EXCEPT ![h] = IF thr[h].pc = "failed" THEN FreshHeader ELSE @]
    /\ life' = [life EXCEPT ![h] =
                   IF thr[h].op = "Allocate" /\ thr[h].pc = "done" THEN "open" ELSE @]
    /\ freeMapFile' = IF thr[h].op \in {"Allocate", "Deallocate"}
                         /\ thr[h].pc = "done"
                      THEN freeMap ELSE freeMapFile
    /\ freeMap' = freeMapFile'
    /\ disk' = IF thr[h].op = "Allocate" /\ thr[h].pc = "done"
               THEN [disk EXCEPT ![HeadSector(h)] = HdrSector(hdr[h])]
               ELSE disk
    /\ UNCHANGED <<memFault, last, serial, userVars>>

\* The steps of the call running on header h.
CallSteps(h) ==
    \/ TAllocSlot(h) \/ TAllocNode(h)
    \/ TFreeSlot(h) \/ TFreeNode(h)
    \/ TDirect(h) \/ THdrDirect(h) \/ TMigrate(h) \/ TFillRead(h)
    \/ TFillWrite(h) \/ TNode(h) \/ THdr(h) \/ TMap(h)

NextCalls ==
    \/ \E h \in Headers : \E fileSize \in CallSizes(h) : TAllocCall(h, fileSize)
    \/ \E h \in Headers : \E addBytes \in CallAdds(h) : TCall(h, addBytes)
    \/ \E h \in Headers : TFreeCall(h)
    \/ \E h \in Headers : CallSteps(h)
    \/ \E h \in Headers : TReturn(h)

\* Every disk request is answered and a thread that can run does run: a
\* call that has a step to take takes it.
SpecCalls ==
    Init /\ [][NextCalls]_vars /\ \A h \in Headers : WF_vars(CallSteps(h))

----------------------------------------------------------------------------
\* The loader of user programs: AddrSpace::AddrSpace and ~AddrSpace of
\* src/userprog/addrspace.cc.  Every action is one call, run to its return.

\* The NOFF header of an executable: the segments follow one another in
\* the address space and in the file, code first.
Noff(cv, cs, ds) ==
    [code |-> Segment(cv, NoffBytes, cs),
     initData |-> Segment(cv + cs, NoffBytes + cs, ds),
     uninitData |-> Segment(cv + cs + ds, 0, 0)]
\* Space 1 runs the program under study: code at address 0 or 1, every
\* segment size up to MaxSegment.  The other spaces run another program,
\* with a byte of code and no data or with MaxSegment bytes of data.
NoffHeaders(a) ==
    IF a = 1
    THEN {Noff(cv, cs, ds) :
            cv \in {0, 1}, cs \in 0 .. MaxSegment, ds \in 0 .. MaxSegment}
    ELSE {Noff(0, 1, ds) : ds \in {0, MaxSegment}}
\* The length of the executable with this header.
FileLength(noffH) == NoffBytes + noffH.code.size + noffH.initData.size

\* BitMap::Find on freeFrame and on threadMap: the first clear bit.
FindFrame(ff) == IF Frames \ ff = {} THEN NoSector ELSE Min(Frames \ ff)
FindPid(tm) == IF Pids \ tm = {} THEN NoSector ELSE Min(Pids \ tm)

\* The constructor at work: the machine's memory and bitmaps, the fields of
\* the object, the addresses its reads wrote, whether a store left
\* mainMemory, whether an ASSERT failed, and the local hasRead.
Ctor(numPages) ==
    [mem |-> mainMemory, freeFrame |-> freeFrame, threadMap |-> threadMap,
     numPages |-> numPages,
     pageTable |-> [i \in 0 .. (numPages - 1) |-> Junk],
     pid |-> NoSector, wrote |-> {}, fault |-> FALSE, halt |-> FALSE,
     hasRead |-> 0]

\* executable->ReadAt(&mainMemory[into], numBytes, position) on the
\* executable of space e: the bytes of the file from position on, as many
\* as asked for and as the file has, land at into, into + 1, ...
ReadAt(c, into, numBytes, e, position, fileLength) ==
    LET n == IF numBytes <= 0 \/ position >= fileLength THEN 0
             ELSE IF position + numBytes > fileLength
                  THEN fileLength - position
                  ELSE numBytes
        to == into .. (into + n - 1)
    IN  [c EXCEPT !.mem = [p \in Addrs |->
                             IF p \in to THEN FileByte(e, position + (p - into))
                             ELSE c.mem[p]],
                  !.wrote = @ \cup to,
                  !.fault = @ \/ ~(to \subseteq Addrs)]

\* bzero(mainMemory + from, size)
Bzero(c, from, size) ==
    LET to == from .. (from + size - 1)
    IN  [c EXCEPT !.mem = [p \in Addrs |->
                             IF p \in to THEN ZeroByte ELSE c.mem[p]],
                  !.fault = @ \/ ~(to \subseteq Addrs)]

\* The loop that fills the page table: a frame from Find for every page.
RECURSIVE PageLoop(_, _)
PageLoop(c, i) ==
    IF i >= c.numPages \/ c.halt THEN c
    ELSE LET f == FindFrame(c.freeFrame)
         IN  IF f = NoSector THEN [c EXCEPT !.halt = TRUE]
             ELSE PageLoop([c EXCEPT !.pageTable[i] = f,
                                     !.freeFrame = @ \cup {f}], i + 1)

\* The loop over the middle pages of a segment: a whole page each.
RECURSIVE MiddlePages(_, _, _, _, _, _)
MiddlePages(c, i, end, e, seg, fileLength) ==
    IF i >= end THEN c
    ELSE MiddlePages(
             [ReadAt(c, c.pageTable[i] * PageSize, PageSize, e,
                     seg.inFileAddr + c.hasRead, fileLength)
                 EXCEPT !.hasRead = @ + PageSize],
             i + 1, end, e, seg, fileLength)

\* A segment is copied in: with one read when its size is at most a page,
\* else its first page (from firstAddr in the file), its middle pages and
\* its last page.
LoadSegment(c, e, seg, firstAddr, fileLength) ==
    IF ~(seg.size > 0) THEN c
    ELSE IF seg.size <= PageSize
    THEN ReadAt(c, (seg.virtualAddr % PageSize)
                     + c.pageTable[seg.virtualAddr \div PageSize] * PageSize,
                seg.size, e, seg.inFileAddr, fileLength)
    ELSE LET pages == divRoundUp(seg.size, PageSize)
             firstPage == seg.virtualAddr \div PageSize
             c1 == [ReadAt(c, (seg.virtualAddr % PageSize)
                                + c.pageTable[firstPage] * PageSize,
                           PageSize - (seg.virtualAddr % PageSize), e,
                           firstAddr, fileLength)
                       EXCEPT !.hasRead = PageSize - (seg.virtualAddr % PageSize)]
             c2 == MiddlePages(c1, firstPage + 1, firstPage + pages - 1, e,
                               seg, fileLength)
         IN  ReadAt(c2, c2.pageTable[firstPage + pages - 1] * PageSize,
                    seg.size - c2.hasRead, e, seg.inFileAddr + c2.hasRead,
                    fileLength)

\* AddrSpace::AddrSpace for space a on an executable with header noffH.
AddrSpace(a, noffH) ==
    LET size == noffH.code.size + noffH.initData.size + noffH.uninitData.size
                + UserStackSize
        numPages == divRoundUp(size, PageSize)
        c0 == Ctor(numPages)
        c1 == IF numPages <= NumPhysPages THEN PageLoop(c0, 0)
              ELSE [c0 EXCEPT !.halt = TRUE]
    IN  IF c1.halt THEN c1
        ELSE LET pid == FindPid(c1.threadMap)
                 c2 == [c1 EXCEPT !.pid = pid,
                                  !.threadMap = IF pid = NoSector THEN @
                                                ELSE @ \cup {pid}]
                 c3 == Bzero(c2, c2.pageTable[0] * PageSize,
                             numPages * PageSize)
                 c4 == LoadSegment(c3, a, noffH.code, noffH.code.inFileAddr,
                                   FileLength(noffH))
             IN  LoadSegment(c4, a, noffH.initData, noffH.code.inFileAddr,
                             FileLength(noffH))

\* The machine runs user programs: no ASSERT has failed, no store has left
\* mainMemory.
UserRunning == load.op # "halt" /\ ~load.fault

\* A user program is started: an AddrSpace is constructed on its file.
DoAddrSpace(a, noffH) ==
    /\ UserRunning /\ ~space[a].live
    /\ LET c == AddrSpace(a, noffH)
       IN  /\ mainMemory' = c.mem
           /\ freeFrame' = c.freeFrame
           /\ threadMap' = c.threadMap
           /\ space' = [space EXCEPT ![a] =
                          [live |-> ~c.halt, numPages |-> c.numPages,
                           pageTable |-> c.pageTable, pid |-> c.pid,
                           noffH |-> noffH]]
           /\ load' = [op |-> IF c.halt THEN "halt" ELSE "AddrSpace",
                       a |-> a, wrote |-> c.wrote, fault |-> c.fault]
    /\ UNCHANGED fsVars

\* AddrSpace::~AddrSpace: the pid and the frames are given back.
DoDelete(a) ==
    /\ UserRunning /\ space[a].live
    /\ threadMap' = threadMap \ {space[a].pid}
    /\ freeFrame' = freeFrame \ {space[a].pageTable[i] :
                                     i \in 0 .. (space[a].numPages - 1)}
    /\ space' = [space EXCEPT ![a] = NoSpace]
    /\ load' = [op |-> "delete", a |-> a, wrote |-> {}, fault |-> FALSE]
    /\ UNCHANGED <<mainMemory, fsVars>>

NextLoad ==
    \/ \E a \in Spaces : \E noffH \in NoffHeaders(a) : DoAddrSpace(a, noffH)
    \/ \E a \in Spaces : DoDelete(a)

SpecLoad == Init /\ [][NextLoad]_vars

----------------------------------------------------------------------------
\* Derived notions used by the properties below.

\* ceil(n / s), defined by its bounds.
Ceil(n, s) == CHOOSE k \in 0 .. n : k * s >= n /\ (k - 1) * s < n
\* The index nodes of a header with its sector count.
NodeCount(h0) == Ceil(h0.numSectors, NumSecond)
\* The valid entries of index node i: all, or the tail in the last node.
ValidCount(h0, i) ==
    IF i < NodeCount(h0) - 1 THEN NumSecond
    ELSE h0.numSectors - NumSecond * (NodeCount(h0) - 1)
\* The sectors reachable from a header: its slots in direct layout, its
\* index nodes and their valid entries in indexed layout.
Reach(h0, dk) ==
    IF h0.useIndex
    THEN UNION {{Slot(h0, i)} \cup
                {ReadNode(dk, Slot(h0, i))[j] : j \in 0 .. (ValidCount(h0, i) - 1)} :
                i \in 0 .. (NodeCount(h0) - 1)}
    ELSE {Slot(h0, i) : i \in 0 .. (h0.numSectors - 1)}
Open == {h \in Headers : life[h] = "open"}
\* The last call was an Allocate or an addLength that returned TRUE.
Grown == last.op \in {"Allocate", "addLength"} /\ last.ret = "TRUE"
\* The clear bits Allocate needs for fileSize bytes.
Needs(fileSize) ==
    LET n == Ceil(fileSize, SectorSize)
    IN  IF n <= NumFirst THEN n ELSE n + Ceil(n, NumSecond)

\* C1: after every Allocate or addLength that returned TRUE, every sector
\* reachable from a header in use is marked in the bitmap and no sector is
\* reachable from two headers, also when the bitmap had too few clear bits.
C1_ReachableMarkedExclusive ==
    (Grown /\ ~memFault) =>
        /\ \A h \in Open : Reach(hdr[h], disk) \subseteq freeMap
        /\ \A g, h \in Open : g # h => Reach(hdr[g], disk) \cap Reach(hdr[h], disk) = {}

\* C2: for every size in 1..MaxFileSize and every bitmap, Allocate returns
\* TRUE exactly when the bitmap has the clear bits the size needs: the data
\* sectors, and in indexed layout the index nodes as well.
C2_AllocateIffEnoughClear ==
    (last.op = "Allocate" /\ last.arg \in 1 .. MaxFileSize) =>
        (last.ret = "TRUE" <=> last.oldClear >= Needs(last.arg))
\* Allocate refused a size whose data sectors alone would have fitted.
C2_Witness ==
    /\ last.op = "Allocate" /\ last.ret = "FALSE"
    /\ last.arg \in 1 .. MaxFileSize
    /\ Ceil(last.arg, SectorSize) > NumFirst
    /\ last.oldClear >= Ceil(last.arg, SectorSize)

\* C3: after Allocate returned TRUE for a size in 1..MaxFileSize, offsets of
\* different logical sectors below the size are mapped by ByteToSector to
\* different sectors, each marked in the bitmap, in both layouts.
C3_OffsetsDistinctMarked ==
    (last.op = "Allocate" /\ last.ret = "TRUE" /\ last.arg \in 1 .. MaxFileSize) =>
        \A o1, o2 \in 0 .. (last.arg - 1) :
            /\ ByteToSector(hdr[last.h], disk, o1) \in freeMap
            /\ (o1 \div SectorSize # o2 \div SectorSize =>
                    ByteToSector(hdr[last.h], disk, o1) #
                    ByteToSector(hdr[last.h], disk, o2))
\* Allocate built two index nodes, the last one partly filled, on a disk
\* where another file already holds sectors.
C3_Witness ==
    /\ last.op = "Allocate" /\ last.ret = "TRUE"
    /\ last.arg \in 1 .. MaxFileSize
    /\ hdr[last.h].useIndex
    /\ hdr[last.h].numSectors > NumSecond
    /\ hdr[last.h].numSectors % NumSecond # 0
    /\ last.oldClear < NumSectors - Cardinality(Headers)

\* C4: an addLength that returned TRUE (direct growth, migration or indexed
\* growth, within MaxFileSize) leaves ByteToSector of every offset below the
\* old file length as it was.
C4_GrowthKeepsOldSectors ==
    [][(last'.op = "addLength" /\ last'.ret = "TRUE" /\ ~memFault') =>
          \A o \in 0 .. (hdr[last'.h].numBytes - 1) :
              ByteToSector(hdr'[last'.h], disk', o) =
              ByteToSector(hdr[last'.h], disk, o)]_vars
\* addLength moved a header with data sectors from direct layout to an
\* index of two nodes.
C4_Witness ==
    /\ last.op = "addLength" /\ last.ret = "TRUE" /\ ~memFault
    /\ ~last.oldIndex /\ last.oldNumSectors > 0
    /\ hdr[last.h].useIndex /\ hdr[last.h].numSectors > NumSecond
    /\ NoSector \notin Reach(hdr[last.h], disk)

\* C5: Deallocate called on a header right after Allocate returned TRUE for
\* it brings the bitmap's clear bits back to their number before Allocate.
C5_DeallocateRestoresClear ==
    [][(last'.op = "Deallocate" /\ last.op = "Allocate" /\ last.ret = "TRUE"
           /\ last'.h = last.h) =>
          (last'.ret = "none" /\ NumClear(freeMap') = last.oldClear)]_vars
\* Deallocate has run on an indexed header of two nodes that came straight
\* from Allocate: the header was never stored or grown, no other file was
\* touched.
C5_Witness ==
    /\ last.op = "Deallocate" /\ last.ret = "none"
    /\ last.obj.useIndex /\ last.obj.numSectors > NumSecond
    /\ disk[HeadSector(last.h)].kind = "raw"
    /\ \A g \in Headers \ {last.h} : life[g] = "new"

\* C6: after every Allocate and addLength that returned, the header's
\* numSectors is ceil(numBytes / SectorSize).
C6_SectorCountIsCeil ==
    /\ (last.op \in {"Allocate", "addLength"} /\ last.ret # "halt") =>
           last.obj.numSectors = Ceil(last.obj.numBytes, SectorSize)
    /\ \A h \in Open : hdr[h].numSectors = Ceil(hdr[h].numBytes, SectorSize)
\* addLength took a header into a new sector that the file fills in part.
C6_Witness ==
    /\ last.op = "addLength" /\ last.ret = "TRUE"
    /\ last.arg > SectorSize
    /\ hdr[last.h].numSectors > last.oldNumSectors
    /\ hdr[last.h].numBytes % SectorSize # 0

\* The draws an addLength makes: the new data sectors, the node of the
\* migration, and the index nodes beyond the old node count.
DrawsOfLast ==
    LET new == last.obj.numSectors
        old == last.oldNumSectors
    IN  (new - old)
        + (IF new > NumFirst /\ ~last.oldIndex THEN 1 ELSE 0)
        + (IF new > NumFirst THEN Ceil(new, NumSecond) - Ceil(old, NumSecond) ELSE 0)

\* C7: addLength returns failure whenever the bitmap cannot satisfy one of
\* the draws the growth needs (stated for growths within MaxFileSize).
C7_AddLengthFailsWithoutSpace ==
    (last.op = "addLength" /\ NodeCount(last.obj) <= NumFirst
        /\ last.oldClear < DrawsOfLast) => last.ret = "FALSE"

\* C8: an addLength whose new sector count needs more index nodes than the
\* header has slots is rejected before anything changes: header, bitmap and
\* disk stay as they were.
C8_OverLimitRejected ==
    [][(last'.op = "addLength"
          /\ Ceil(Ceil(hdr[last'.h].numBytes + last'.arg, SectorSize), NumSecond)
               > NumFirst) =>
          (last'.ret = "FALSE" /\ hdr' = hdr /\ freeMapFile' = freeMapFile
              /\ disk' = disk)]_vars

\* C9: after every Allocate or addLength that returned TRUE, an indexed
\* header has at most NumFirst index nodes and no store went to a slot
\* position >= NumFirst.
C9_NodeCountWithinSlots ==
    Grown => /\ ~memFault
             /\ \A h \in Open : hdr[h].useIndex => NodeCount(hdr[h]) <= NumFirst

\* C10: when Allocate returns FALSE nothing of the allocation shows: no bit
\* was set, no sector was written, and the header object does not carry the
\* requested size, sector count or layout.
C10_FailedAllocateLeavesNothing ==
    [][(last'.op = "Allocate" /\ last'.ret = "FALSE") =>
          (freeMap' = freeMap /\ disk' = disk /\ last'.obj = FreshHeader)]_vars
\* The part of C10 about the bitmap and the disk.
C10_BitmapAndDiskPart ==
    [][(last'.op = "Allocate" /\ last'.ret = "FALSE") =>
          (freeMap' = freeMap /\ disk' = disk)]_vars

\* C11 as stated: the second of two Deallocate calls on a header, with no
\* allocation in between, halts on the ASSERT before it clears a bit, for
\* every header.
C11_SecondDeallocateHalts ==
    [][(last'.op = "Deallocate" /\ life[last'.h] = "gone") =>
          (last'.ret = "halt" /\ freeMap' = freeMap)]_vars
\* C11 as amended: the second of two Deallocate calls on a header that holds
\* at least one sector, with no allocation in between, halts on the ASSERT
\* before it clears a bit, in direct and in indexed layout.
C11_SecondDeallocateHaltsNonEmpty ==
    [][(last'.op = "Deallocate" /\ life[last'.h] = "gone"
           /\ hdr[last'.h].numSectors > 0) =>
          (last'.ret = "halt" /\ freeMap' = freeMap)]_vars
\* The second Deallocate has halted on an indexed header of two nodes.
C11_Witness ==
    /\ last.op = "Deallocate" /\ last.ret = "halt" /\ life[last.h] = "again"
    /\ hdr[last.h].useIndex /\ hdr[last.h].numSectors > NumSecond

\* C12: with enough clear bits, Allocate of NumFirst * SectorSize bytes
\* returns TRUE with a header in direct layout of NumFirst sectors, and
\* Allocate of one byte more returns TRUE with a header in indexed layout
\* that has exactly one index node, written to the sector in slot 0.
C12_ModeBoundary ==
    (last.op = "Allocate" /\ last.oldClear >= Needs(last.arg)) =>
        /\ (last.arg = NumFirst * SectorSize =>
               /\ last.ret = "TRUE"
               /\ ~last.obj.useIndex
               /\ last.obj.numSectors = NumFirst)
        /\ (last.arg = NumFirst * SectorSize + 1 =>
               /\ last.ret = "TRUE"
               /\ last.obj.useIndex
               /\ NodeCount(last.obj) = 1
               /\ Slot(last.obj, 0) \in Sectors
               /\ disk[Slot(last.obj, 0)].kind = "node"
               /\ \A i \in 1 .. (NumFirst - 1) : Slot(last.obj, i) = Junk)
\* Allocate of one byte beyond the direct maximum has built its one node.
C12_Witness ==
    /\ last.op = "Allocate" /\ last.ret = "TRUE"
    /\ last.arg = NumFirst * SectorSize + 1
    /\ hdr[last.h].useIndex
    /\ Cardinality(Reach(hdr[last.h], disk)) = NumFirst + 2

\* The slots of a direct header below its sector count name different
\* sectors, all marked in the bitmap's file.
SoundDirect(h0) ==
    /\ ~h0.useIndex
    /\ \A i \in 0 .. (h0.numSectors - 1) : Slot(h0, i) \in freeMapFile
    /\ \A i, j \in 0 .. (h0.numSectors - 1) : i # j => Slot(h0, i) # Slot(h0, j)

BothReturned == \A h \in Headers : thr[h].pc = "done"
\* Two headers own the same sector.
SharedSector ==
    \E g, h \in Headers :
        g # h /\ Reach(hdr[g], disk) \cap Reach(hdr[h], disk) \cap Sectors # {}
\* The bitmap's file does not mark a sector that a header owns.
LostAllocation ==
    \E h \in Headers : ~(Reach(hdr[h], disk) \cap Sectors \subseteq freeMapFile)

\* C14: when the callers serialize the addLength calls on the two headers,
\* no state is reached in which both calls have returned and the headers own
\* a common sector or the bitmap's file misses a sector one of them owns.
\* (The witness is the state the claim says exists without the lock.)
C14_SerializedCallsAreSafe ==
    (serial /\ BothReturned) => (~SharedSector /\ ~LostAllocation)
\* Without the lock, switching at disk operations only, both calls have
\* returned true and the two headers own the same sector.
C14_Witness ==
    ~serial /\ BothReturned /\ SharedSector

\* C15: when addLength has returned true after a growth that needed new
\* sectors (within MaxFileSize), the header's sector on the disk holds the
\* header as it is in memory, every index node of the header is in its
\* sector on the disk, and the bitmap's file marks every sector the header
\* reaches and has one more mark for every draw the call made.
C15_GrowthIsPersisted ==
    (/\ last.op = "addLength" /\ last.ret = "TRUE" /\ ~memFault
     /\ hdr[last.h].numSectors > last.oldNumSectors) =>
        /\ disk[HeadSector(last.h)] = HdrSector(hdr[last.h])
        /\ hdr[last.h].useIndex =>
               \A i \in 0 .. (NodeCount(hdr[last.h]) - 1) :
                   /\ Slot(hdr[last.h], i) \in Sectors
                   /\ disk[Slot(hdr[last.h], i)].kind = "node"
        /\ Reach(hdr[last.h], disk) \cap Sectors \subseteq freeMapFile
        /\ NumClear(freeMapFile) =
               (IF last.oldClear > DrawsOfLast
                THEN last.oldClear - DrawsOfLast ELSE 0)
\* addLength has grown an indexed header whose last node was partly
\* filled: the node's tail took the new sectors.
C15_Witness ==
    /\ last.op = "addLength" /\ last.ret = "TRUE" /\ ~memFault
    /\ last.oldIndex /\ last.oldNumSectors % NumSecond # 0
    /\ hdr[last.h].numSectors > last.oldNumSectors
    /\ last.oldClear >= DrawsOfLast

\* C16: an addLength whose added bytes leave the sector count as it was
\* returns true and changes the header's numBytes only: the header is
\* written to its sector, and the bitmap, the bitmap's file, the slots, the
\* layout and every other sector of the disk (all index nodes) stay.
C16_SizeOnlyGrowth ==
    [][(/\ last'.op = "addLength"
        /\ Ceil(hdr[last'.h].numBytes + last'.arg, SectorSize)
              = hdr[last'.h].numSectors) =>
          /\ last'.ret = "TRUE"
          /\ hdr' = [hdr EXCEPT ![last'.h].numBytes = @ + last'.arg]
          /\ freeMap' = freeMap
          /\ freeMapFile' = freeMapFile
          /\ memFault' = memFault
          /\ disk' = [disk EXCEPT ![HeadSector(last'.h)] = HdrSector(hdr'[last'.h])]
       ]_vars
\* addLength has added bytes to an indexed header within its last sector.
C16_Witness ==
    /\ last.op = "addLength" /\ last.ret = "TRUE" /\ last.arg > 0
    /\ hdr[last.h].numSectors = last.oldNumSectors
    /\ hdr[last.h].useIndex
    /\ disk[HeadSector(last.h)] = HdrSector(hdr[last.h])

\* C17: a Deallocate that returns has cleared the bits of the sectors
\* reachable from the header and no other bit: the slots below numSectors in
\* direct layout; in indexed layout the valid entries of every index node
\* (all, or the tail in the last node) and the nodes' own sectors.  Each of
\* these bits was set; the header, the disk and the bitmap's file stay.
C17_DeallocateClearsReachable ==
    [][(last'.op = "Deallocate" /\ last'.ret = "none") =>
          /\ Reach(hdr[last'.h], disk) \subseteq freeMap
          /\ freeMap' = freeMap \ Reach(hdr[last'.h], disk)
          /\ hdr' = hdr
          /\ last'.obj = hdr[last'.h]
          /\ disk' = disk
          /\ freeMapFile' = freeMapFile
       ]_vars
\* Deallocate has returned on an indexed header whose last node was partly
\* filled, while another file keeps its sectors.
C17_Witness ==
    /\ last.op = "Deallocate" /\ last.ret = "none"
    /\ last.obj.useIndex /\ last.obj.numSectors % NumSecond # 0
    /\ \E g \in Open : g # last.h /\ Reach(hdr[g], disk) # {}
                         /\ Reach(hdr[g], disk) \subseteq freeMap

\* C18: Allocate marks bits in the in-memory bitmap and stores neither the
\* bitmap nor the header: the bitmap's file and the header's sector stay; in
\* direct layout no sector of the disk changes; in indexed layout (within
\* MaxFileSize) the sectors that change are among those named in the slots
\* below the node count, each of which holds an index node whose valid
\* entries are sectors marked by the call.
C18_AllocateStoresNodesOnly ==
    [][(last'.op = "Allocate" /\ last'.ret # "halt" /\ ~memFault') =>
          LET obj == last'.obj
              nodes == IF last'.ret = "TRUE" /\ obj.useIndex
                       THEN {Slot(obj, i) : i \in 0 .. (NodeCount(obj) - 1)}
                       ELSE {}
          IN  /\ freeMapFile' = freeMapFile
              /\ disk'[HeadSector(last'.h)] = disk[HeadSector(last'.h)]
              /\ {s \in Sectors : disk'[s] # disk[s]} \subseteq nodes
              /\ nodes \subseteq freeMap' \ freeMap
              /\ \A i \in 0 .. (Cardinality(nodes) - 1) :
                     /\ disk'[Slot(obj, i)].kind = "node"
                     /\ \A j \in 0 .. (ValidCount(obj, i) - 1) :
                            ReadNode(disk', Slot(obj, i))[j] \in freeMap' \ freeMap
              /\ last'.ret = "TRUE" =>
                     Cardinality(freeMap' \ freeMap) = Needs(last'.arg)
       ]_vars
\* Allocate has built a header of two index nodes; neither the bitmap nor
\* the header has reached the disk.
C18_Witness ==
    /\ last.op = "Allocate" /\ last.ret = "TRUE" /\ ~memFault
    /\ last.obj.useIndex /\ NodeCount(last.obj) = 2
    /\ freeMap # freeMapFile
    /\ disk[HeadSector(last.h)].kind = "raw"
    /\ disk[Slot(last.obj, 1)].kind = "node"

\* The call on header h is inside one of the three methods.
InCall(h) == thr[h].pc \notin {"idle", "done", "failed", "halt"}
\* The call on header h has returned (success: "done", failure: "failed") or
\* has stopped the machine on a failed ASSERT.
CallEnded(h) == thr[h].pc \in {"done", "failed", "halt"}

\* C19: every call of Allocate, addLength and Deallocate, each disk request
\* being answered, ends: it returns success, returns failure or halts on an
\* ASSERT; no call stays in a loop for ever.
C19_CallsEnd ==
    \A h \in Headers : InCall(h) ~> CallEnded(h)
\* Deallocate has returned from its loop over two index nodes.
C19_Witness ==
    \E h \in Headers :
        /\ thr[h].op = "Deallocate" /\ thr[h].pc = "done"
        /\ hdr[h].useIndex /\ thr[h].i = 2

\* The sectors a header in use reaches; none before its Allocate.
Owned(h) == IF life[h] = "open" THEN Reach(hdr[h], disk) ELSE {}

\* C20: every Allocate and addLength that returns TRUE (within MaxFileSize,
\* the bitmap holding the clear bits the draws need) sets as many bits as it
\* makes sectors reachable from the header, data sectors and index nodes;
\* also when a header without a sector grows beyond NumFirst sectors.
C20_NoSectorLeak ==
    [][(/\ last'.op \in {"Allocate", "addLength"} /\ last'.ret = "TRUE"
        /\ ~memFault'
        /\ last'.op = "addLength" => last'.oldClear >= DrawsOfLast') =>
          \A h \in Headers : last'.h = h =>
              Cardinality(freeMap' \ freeMap) =
                  Cardinality(Owned(h)') - Cardinality(Owned(h))
       ]_vars
\* The same for every call but the growth of a header without a sector
\* beyond NumFirst sectors.
C20_NoLeakButFromEmpty ==
    [][(/\ last'.op \in {"Allocate", "addLength"} /\ last'.ret = "TRUE"
        /\ ~memFault'
        /\ last'.op = "addLength" => last'.oldClear >= DrawsOfLast'
        /\ ~(last'.op = "addLength" /\ hdr[last'.h].numSectors = 0
               /\ hdr'[last'.h].numSectors > NumFirst)) =>
          \A h \in Headers : last'.h = h =>
              Cardinality(freeMap' \ freeMap) =
                  Cardinality(Owned(h)') - Cardinality(Owned(h))
       ]_vars

\* C21: after every Allocate and addLength that returned TRUE (addBytes >= 0,
\* within MaxFileSize) every header in use is indexed exactly when it has
\* more than NumFirst sectors; a header that was indexed stays indexed, and
\* addLength on an indexed header does not take the direct-growth branch
\* (a changed sector count of at most NumFirst).
C21_LayoutFollowsSectorCount ==
    [][(/\ last'.op \in {"Allocate", "addLength"} /\ last'.ret = "TRUE"
        /\ ~memFault') =>
          \A h \in Headers : life'[h] = "open" =>
              /\ hdr'[h].useIndex <=> hdr'[h].numSectors > NumFirst
              /\ (life[h] = "open" /\ hdr[h].useIndex) =>
                     /\ hdr'[h].useIndex
                     /\ ~(hdr'[h].numSectors # hdr[h].numSectors
                            /\ hdr'[h].numSectors <= NumFirst)
       ]_vars
\* addLength has grown a direct header to exactly NumFirst sectors, still
\* direct, while the other file is indexed.
C21_Witness ==
    /\ last.op = "addLength" /\ last.ret = "TRUE" /\ ~memFault
    /\ ~last.oldIndex /\ ~hdr[last.h].useIndex
    /\ hdr[last.h].numSectors = NumFirst
    /\ last.oldNumSectors < NumFirst
    /\ \E g \in Open : g # last.h /\ hdr[g].useIndex

\* The physical address the page table of space a gives for virtual address v.
Translate(a, v) ==
    space[a].pageTable[v \div PageSize] * PageSize + (v % PageSize)
\* The physical addresses inside the frames of space a.
OwnedAddrs(a) ==
    {p \in Addrs : \E i \in 0 .. (space[a].numPages - 1) :
                      p \div PageSize = space[a].pageTable[i]}
\* Every byte of the segment is in memory where the page table says.
Loaded(a, seg) ==
    \A k \in 0 .. (seg.size - 1) :
        mainMemory[Translate(a, seg.virtualAddr + k)]
            = FileByte(a, seg.inFileAddr + k)
\* The frames of space a follow one another in memory.
Contiguous(a) ==
    \A i \in 1 .. (space[a].numPages - 1) :
        space[a].pageTable[i] = space[a].pageTable[i - 1] + 1

\* C22: after the constructor every byte k of the code segment and of the
\* initData segment is at the physical address the page table gives for
\* virtualAddr + k and is the byte inFileAddr + k of the file, and every
\* read wrote inside the frames of this address space only.
C22_SegmentsLoadedFaithfully ==
    load.op = "AddrSpace" =>
        /\ Loaded(load.a, space[load.a].noffH.code)
        /\ Loaded(load.a, space[load.a].noffH.initData)
        /\ load.wrote \subseteq OwnedAddrs(load.a)

\* What does hold of the constructor: when the frames of the space follow
\* one another, the code segment is loaded faithfully and every read stays
\* inside the frames of the space; so is an initData segment of at most a
\* page, or one whose first page is read from its own place in the file.
C22_LoadedWhenContiguous ==
    (load.op = "AddrSpace" /\ Contiguous(load.a)) =>
        LET noffH == space[load.a].noffH
        IN  /\ Loaded(load.a, noffH.code)
            /\ load.wrote \subseteq OwnedAddrs(load.a)
            /\ (noffH.initData.size <= PageSize
                 \/ noffH.initData.inFileAddr = noffH.code.inFileAddr)
                  => Loaded(load.a, noffH.initData)

====
